---- MODULE Spec2Model ----
(***************************************************************************)
(* NotepadDecoder (src/notepad_decoder.py): recovery of UTF-16LE text from *)
(* Windows Notepad TabState .bin files.                                    *)
(*                                                                         *)
(* A byte buffer is a sequence of integers 0..255.  A Python str is a      *)
(* sequence of code points.  Python indices are 0-based: data[k] of the    *)
(* source is data[k + 1] here.                                             *)
(***************************************************************************)
EXTENDS Integers, Sequences, FiniteSets

VARIABLES
    call,          \* the function under execution
    file,          \* state of the file at file_path: "ok", "missing", "denied"
    data,          \* the buffer (f.read() / the data argument)
    min_chars,     \* argument of extract_utf16le_runs
    pc,            \* position in the called function
    i,             \* cursor of extract_utf16le_runs (0-based)
    runs,          \* list built by extract_utf16le_runs
    spans,         \* history: <<i, j>> of every chunk data[i:j] taken as a run
    oi,            \* index into the offset list of decode_notepad_bin (1-based)
    tried,         \* history: the offsets whose decode was attempted
    bi,            \* extract_printable_strings: number of bytes iterated
    cur,           \* extract_printable_strings: the characters accumulated
    printable_runs,  \* extract_printable_strings: its list runs
    result,        \* the str returned by decode_notepad_bin / make_filename_from_content
    tier,          \* the return statement taken by decode_notepad_bin
    raised,        \* TRUE iff an exception left decode_notepad_bin
    stdout,        \* messages written by decode_notepad_bin
    content,       \* argument of make_filename_from_content
    default_stem   \* argument of make_filename_from_content

vars == <<call, file, data, min_chars, pc, i, runs, spans, oi, tried, bi, cur,
          printable_runs, result, tier, raised, stdout, content, default_stem>>

----------------------------------------------------------------------------
(* Bounds of the input sets.                                               *)

MaxLen == 5            \* free buffers over ByteAlphabet: length 0..MaxLen
MaxPairs == 5          \* buffers of ASCII-range pairs: 4..MaxPairs code units
MaxUnits == 7          \* head + code units over WideUnits: 0..MaxUnits units
MaxChunks == 3         \* buffers of 0..MaxChunks chunks
MaxZeros == 100        \* all-zero buffers of length 0..MaxZeros
MaxMinChars == 4       \* min_chars of a direct scanner call: 1..MaxMinChars
MaxContentLen == 4     \* free content strings: length 0..MaxContentLen

----------------------------------------------------------------------------
(* Program constants.                                                      *)

FILENAME_MAX_LEN == 30
DecodeMinChars == 4

Offsets == <<0, 2, 4, 6, 8, 10, 12, 14, 16, 18, 20>>

REPLACEMENT == 65533                 \* '�'
Separator == <<10, 10>>              \* "\n\n"

----------------------------------------------------------------------------
(* Sequence helpers.                                                       *)

SeqsUpTo(S, n) == UNION {[1..k -> S] : k \in 0..n}

Slice(s, a, b) == SubSeq(s, a + 1, b)         \* s[a:b], 0 <= a, b <= len(s)

SliceFrom(s, a) == SubSeq(s, a + 1, Len(s))   \* s[a:]

RECURSIVE Concat(_)
Concat(ss) == IF ss = <<>> THEN <<>> ELSE Head(ss) \o Concat(Tail(ss))

RECURSIVE Join(_, _)
Join(sep, ss) ==
    IF ss = <<>> THEN <<>>
    ELSE IF Len(ss) = 1 THEN Head(ss)
    ELSE Head(ss) \o sep \o Join(sep, Tail(ss))

Repeat(x, n) == [k \in 1..n |-> x]

Min(a, b) == IF a < b THEN a ELSE b

----------------------------------------------------------------------------
(* Python str predicates and methods, on code points.                      *)

\* str.isspace() of one character (Unicode 14 White_Space / bidirectional
\* type WS, B, S), which is the set str.strip() removes.
IsSpace(c) ==
    \/ c \in 9..13
    \/ c \in 28..32
    \/ c \in {133, 160, 5760, 8232, 8233, 8239, 8287, 12288}
    \/ c \in 8192..8202

\* str.isalnum() of one character, for the code points below U+0180, the
\* block U+2000..U+206F, CJK Extension A (U+3400..U+4DBF), U+FFFD and
\* U+10000: the code points the modelled buffers decode to.
IsAlnum(c) ==
    \/ c \in 48..57
    \/ c \in 65..90
    \/ c \in 97..122
    \/ c \in {170, 178, 179, 181, 185, 186, 188, 189, 190}
    \/ c \in 192..214
    \/ c \in 216..246
    \/ c \in 248..383
    \/ c \in 13312..19903
    \/ c = 65536

RECURSIVE LStrip(_)
LStrip(s) == IF s # <<>> /\ IsSpace(Head(s)) THEN LStrip(Tail(s)) ELSE s

RECURSIVE RStrip(_)
RStrip(s) ==
    IF s # <<>> /\ IsSpace(s[Len(s)]) THEN RStrip(SubSeq(s, 1, Len(s) - 1)) ELSE s

Strip(s) == RStrip(LStrip(s))                 \* str.strip()

Remove(s, c) == SelectSeq(s, LAMBDA x : x # c)   \* s.replace(c, '')

AnyAlnum(s) == \E k \in 1..Len(s) : IsAlnum(s[k])

----------------------------------------------------------------------------
(* bytes.decode('utf-16le', ...)                                           *)

Unit(d, p) == d[p + 1] + 256 * d[p + 2]       \* code unit at byte offset p

IsHighSurrogate(u) == u \in 55296..56319
IsLowSurrogate(u) == u \in 56320..57343

\* errors='replace': every undecodable span becomes one U+FFFD.  A lone low
\* surrogate and a high surrogate not followed by a low one span 2 bytes; a
\* truncated unit and a high surrogate without a complete next unit span the
\* rest of the input.
RECURSIVE DecodeReplaceFrom(_, _)
DecodeReplaceFrom(d, p) ==
    LET n == Len(d) IN
    IF p >= n THEN <<>>
    ELSE IF p + 1 = n THEN <<REPLACEMENT>>
    ELSE LET u == Unit(d, p) IN
         IF IsLowSurrogate(u) THEN <<REPLACEMENT>> \o DecodeReplaceFrom(d, p + 2)
         ELSE IF IsHighSurrogate(u) THEN
             IF p + 3 >= n THEN <<REPLACEMENT>>
             ELSE IF IsLowSurrogate(Unit(d, p + 2))
                  THEN <<65536 + (u - 55296) * 1024 + (Unit(d, p + 2) - 56320)>>
                       \o DecodeReplaceFrom(d, p + 4)
                  ELSE <<REPLACEMENT>> \o DecodeReplaceFrom(d, p + 2)
         ELSE <<u>> \o DecodeReplaceFrom(d, p + 2)

DecodeReplace(d) == DecodeReplaceFrom(d, 0)

\* errors='strict': the same decoding, raising UnicodeDecodeError where
\* 'replace' would substitute.
RECURSIVE DecodeRaisesFrom(_, _)
DecodeRaisesFrom(d, p) ==
    LET n == Len(d) IN
    IF p >= n THEN FALSE
    ELSE IF p + 1 = n THEN TRUE
    ELSE LET u == Unit(d, p) IN
         IF IsLowSurrogate(u) THEN TRUE
         ELSE IF IsHighSurrogate(u) THEN
             IF p + 3 >= n THEN TRUE
             ELSE IF IsLowSurrogate(Unit(d, p + 2))
                  THEN DecodeRaisesFrom(d, p + 4)
                  ELSE TRUE
         ELSE DecodeRaisesFrom(d, p + 2)

DecodeRaises(d) == DecodeRaisesFrom(d, 0)

----------------------------------------------------------------------------
(* extract_utf16le_runs                                                    *)

\* Mutant: the lower limit is exclusive, so a space ends a run.
is_utf16le_ascii_pair_exclusive(lo, hi) == 32 < lo /\ lo <= 126 /\ hi = 0

is_utf16le_ascii_pair(lo, hi) == 32 <= lo /\ lo <= 126 /\ hi = 0

\* The inner while loop: from byte offset j, the offset at which the
\* sequence of ASCII-range pairs stops (count is (j - i) \div 2).
RECURSIVE RunEnd(_, _)
RunEnd(d, j) ==
    IF j + 1 < Len(d) /\ is_utf16le_ascii_pair(d[j + 1], d[j + 2])
    THEN RunEnd(d, j + 2)
    ELSE j

----------------------------------------------------------------------------
(* extract_printable_strings                                               *)

DefaultMinLen == 4                   \* min_len=4

IsPrintable(byte) == 32 <= byte /\ byte <= 126

\* Mutant: a run must be longer than min_len to be kept.
FlushLonger(rs, c, min_len) == IF Len(c) > min_len THEN Append(rs, c) ELSE rs

\* Lines 149-150 and 153-154: the accumulated characters are kept as a run
\* when there are min_len of them or more.
Flush(rs, c, min_len) == IF Len(c) >= min_len THEN Append(rs, c) ELSE rs

----------------------------------------------------------------------------
(* make_filename_from_content                                              *)

\* The line boundaries of str.splitlines(); "\r\n" is one boundary.
IsLineBreak(c) == c \in {10, 11, 12, 13, 28, 29, 30, 133, 8232, 8233}

RECURSIVE SplitFrom(_, _, _, _)
SplitFrom(s, k, acc, line) ==
    IF k > Len(s) THEN
        IF line # <<>> THEN Append(acc, line) ELSE acc
    ELSE IF IsLineBreak(s[k]) THEN
        SplitFrom(s,
                  IF s[k] = 13 /\ k < Len(s) /\ s[k + 1] = 10 THEN k + 2 ELSE k + 1,
                  Append(acc, line), <<>>)
    ELSE SplitFrom(s, k + 1, acc, Append(line, s[k]))

SplitLines(s) == SplitFrom(s, 1, <<>>, <<>>)

\* [A-Za-z0-9 _-]
IsKept(c) == c \in 65..90 \/ c \in 97..122 \/ c \in 48..57 \/ c \in {32, 95, 45}

RECURSIVE DropSpaces(_)
DropSpaces(s) == IF s # <<>> /\ IsSpace(Head(s)) THEN DropSpaces(Tail(s)) ELSE s

\* re.sub(r'\s+', '_', s)
RECURSIVE SpacesToUnderscore(_)
SpacesToUnderscore(s) ==
    IF s = <<>> THEN <<>>
    ELSE IF IsSpace(Head(s)) THEN <<95>> \o SpacesToUnderscore(DropSpaces(s))
    ELSE <<Head(s)>> \o SpacesToUnderscore(Tail(s))

RECURSIVE DropUnderscores(_)
DropUnderscores(s) == IF s # <<>> /\ Head(s) = 95 THEN DropUnderscores(Tail(s)) ELSE s

\* Mutant: repeated underscores are kept.
KeepUnderscores(s) == s

\* re.sub(r'_+', '_', s)
RECURSIVE CollapseUnderscores(_)
CollapseUnderscores(s) ==
    IF s = <<>> THEN <<>>
    ELSE IF Head(s) = 95 THEN <<95>> \o CollapseUnderscores(DropUnderscores(s))
    ELSE <<Head(s)>> \o CollapseUnderscores(Tail(s))

RECURSIVE RStripUnderscores(_)
RStripUnderscores(s) ==
    IF s # <<>> /\ s[Len(s)] = 95
    THEN RStripUnderscores(SubSeq(s, 1, Len(s) - 1))
    ELSE s

StripUnderscores(s) == RStripUnderscores(DropUnderscores(s))   \* s.strip('_')

\* Indices of the lines that are non-empty once stripped.
NonBlank(lines) == {k \in 1..Len(lines) : Strip(lines[k]) # <<>>}

FirstLine(s) ==
    LET lines == SplitLines(s)
        k == CHOOSE x \in NonBlank(lines) : \A y \in NonBlank(lines) : x <= y
    IN Strip(lines[k])

Truncate(s) == SubSeq(s, 1, Min(Len(s), FILENAME_MAX_LEN))     \* s[:FILENAME_MAX_LEN]

Sanitize(first) ==
    StripUnderscores(CollapseUnderscores(SpacesToUnderscore(
        Strip(SelectSeq(Truncate(first), IsKept)))))

make_filename_from_content(c, stem) ==
    IF c = <<>> THEN stem
    ELSE IF NonBlank(SplitLines(c)) = {} THEN stem
    ELSE IF Sanitize(FirstLine(c)) = <<>> THEN stem
    ELSE Sanitize(FirstLine(c))

----------------------------------------------------------------------------
(* decode_notepad_bin                                                      *)

\* Lines 81-83: data[offset:].decode('utf-16le', errors='replace')
\*              .replace('�', '').strip()
OffsetText(d, offset) == Strip(Remove(DecodeReplace(SliceFrom(d, offset)), REPLACEMENT))

\* Mutant: the text is accepted on its length alone.
AcceptedOnLength(decoded) == Len(decoded) > 5

\* Line 85
Accepted(decoded) == Len(decoded) > 5 /\ AnyAlnum(decoded)

----------------------------------------------------------------------------
(* Inputs.                                                                 *)

ByteAlphabet == {0, 1, 32, 65}
FreeBufs == SeqsUpTo(ByteAlphabet, MaxLen)

\* UTF-16LE encodings of the texts over ' ', 'A', '~' of 4..MaxPairs characters
PairAlphabet == {32, 65, 126}
Encode(t) == Concat([k \in 1..Len(t) |-> <<t[k], 0>>])
PairTexts == {t \in SeqsUpTo(PairAlphabet, MaxPairs) : Len(t) >= 4}
PairBufs == {Encode(t) : t \in PairTexts}

\* A head followed by code units U+0141 and U+0020
WideUnits == {<<65, 1>>, <<32, 0>>}
Heads == {<<>>, <<1>>, <<0, 216>>, <<0, 220>>, <<0, 216, 0, 220>>, <<253, 255>>}
WideBufs == {h \o Concat(us) : h \in Heads, us \in SeqsUpTo(WideUnits, MaxUnits)}

\* Runs "AAAA", "    ", " AA ", and bytes that are no ASCII-range pair
Chunks ==
    {<<65, 0, 65, 0, 65, 0, 65, 0>>, <<32, 0, 32, 0, 32, 0, 32, 0>>,
     <<32, 0, 65, 0, 65, 0, 32, 0>>, <<1>>, <<0>>, <<65, 65, 65, 65>>}
ChunkBufs == {Concat(cs) : cs \in SeqsUpTo(Chunks, MaxChunks)}

ZeroBufs == {Repeat(0, k) : k \in 0..MaxZeros}

FalseStart == <<65, 1, 66, 0, 67, 0, 68, 0, 69, 0>>

Buffers == FreeBufs \cup PairBufs \cup WideBufs \cup ChunkBufs \cup ZeroBufs
           \cup {FalseStart}

ScanBufs == FreeBufs \cup PairBufs \cup ChunkBufs \cup {FalseStart}

PrintBufs == FreeBufs \cup PairBufs \cup ChunkBufs

\* "  Hello, World! 2024  \nmore text"
HelloText ==
    <<32, 32, 72, 101, 108, 108, 111, 44, 32, 87, 111, 114, 108, 100, 33, 32,
      50, 48, 50, 52, 32, 32, 10, 109, 111, 114, 101, 32, 116, 101, 120, 116>>

\* "decoded"
DecodedStem == <<100, 101, 99, 111, 100, 101, 100>>

\* 'a', ' ', '_', ',', '-', "\n"
CharAlphabet == {97, 32, 95, 44, 45, 10}
ShortTexts == SeqsUpTo(CharAlphabet, MaxContentLen)
Pad == Repeat(97, FILENAME_MAX_LEN - 2)
Contents == ShortTexts \cup {Pad \o t : t \in ShortTexts} \cup {HelloText}
Stems == {DecodedStem, <<95, 32>>}

----------------------------------------------------------------------------
(* The state machine.                                                      *)

Idle ==
    /\ data = <<>> /\ min_chars = 0 /\ i = 0 /\ runs = <<>> /\ spans = <<>>
    /\ oi = 0 /\ tried = <<>> /\ result = <<>> /\ tier = "none"
    /\ bi = 0 /\ cur = <<>> /\ printable_runs = <<>>
    /\ raised = FALSE /\ stdout = <<>>

Init ==
    \/ /\ call = "decode_notepad_bin"
       /\ file \in [status : {"ok"}, bytes : Buffers]
                   \cup [status : {"missing", "denied"}, bytes : {<<>>}]
       /\ pc = "open"
       /\ content = <<>> /\ default_stem = <<>>
       /\ Idle
    \/ /\ call = "extract_utf16le_runs"
       /\ file = [status |-> "none", bytes |-> <<>>]
       /\ data \in ScanBufs
       /\ min_chars \in 1..MaxMinChars
       /\ pc = "scan"
       /\ content = <<>> /\ default_stem = <<>>
       /\ i = 0 /\ runs = <<>> /\ spans = <<>>
       /\ oi = 0 /\ tried = <<>> /\ result = <<>> /\ tier = "none"
       /\ bi = 0 /\ cur = <<>> /\ printable_runs = <<>>
       /\ raised = FALSE /\ stdout = <<>>
    \/ /\ call = "extract_printable_strings"
       /\ file = [status |-> "none", bytes |-> <<>>]
       /\ data \in PrintBufs
       /\ pc = "printable"
       /\ content = <<>> /\ default_stem = <<>>
       /\ min_chars = 0 /\ i = 0 /\ runs = <<>> /\ spans = <<>>
       /\ oi = 0 /\ tried = <<>> /\ result = <<>> /\ tier = "none"
       /\ bi = 0 /\ cur = <<>> /\ printable_runs = <<>>
       /\ raised = FALSE /\ stdout = <<>>
    \/ /\ call = "make_filename_from_content"
       /\ file = [status |-> "none", bytes |-> <<>>]
       /\ content \in Contents
       /\ default_stem \in Stems
       /\ pc = "filename"
       /\ Idle

\* Lines 67-71: the file is read and the scanner is called with min_chars=4.
OpenRead ==
    /\ pc = "open"
    /\ file.status = "ok"
    /\ data' = file.bytes
    /\ min_chars' = DecodeMinChars
    /\ i' = 0
    /\ runs' = <<>>
    /\ pc' = "scan"
    /\ UNCHANGED <<bi, cur, printable_runs>>
    /\ UNCHANGED <<call, file, spans, oi, tried, result, tier, raised, stdout,
                   content, default_stem>>

\* Lines 93-98: open() or read() raised; both handlers print and return "".
HandleIOError ==
    /\ pc = "open"
    /\ file.status # "ok"
    /\ stdout' = Append(stdout, IF file.status = "missing"
                                THEN "Error: File not found."
                                ELSE "Error decoding")
    /\ result' = <<>>
    /\ raised' = FALSE
    /\ tier' = "error"
    /\ pc' = "done"
    /\ UNCHANGED <<bi, cur, printable_runs>>
    /\ UNCHANGED <<call, file, data, min_chars, i, runs, spans, oi, tried,
                   content, default_stem>>

\* Mutant: the cursor moves by 2 bytes, whatever the run found.
ScanStepByTwo ==
    /\ pc = "scan"
    /\ i + 1 < Len(data)
    /\ LET j == RunEnd(data, i)
           count == (j - i) \div 2
           chunk == Slice(data, i, j)
       IN IF count >= min_chars
          THEN /\ runs' = Append(runs, Strip(DecodeReplace(chunk)))
               /\ spans' = Append(spans, <<i, j>>)
          ELSE UNCHANGED <<runs, spans>>
    /\ i' = i + 2
    /\ UNCHANGED <<bi, cur, printable_runs>>
    /\ UNCHANGED <<call, file, data, min_chars, pc, oi, tried, result, tier,
                   raised, stdout, content, default_stem>>

\* Mutant: after a run that is too short the cursor moves to the next pair,
\* keeping the alignment.
ScanStepAligned ==
    /\ pc = "scan"
    /\ i + 1 < Len(data)
    /\ LET j == RunEnd(data, i)
           count == (j - i) \div 2
           chunk == Slice(data, i, j)
       IN IF count >= min_chars
          THEN /\ runs' = Append(runs, Strip(DecodeReplace(chunk)))
               /\ spans' = Append(spans, <<i, j>>)
               /\ i' = j
          ELSE /\ i' = i + 2
               /\ UNCHANGED <<runs, spans>>
    /\ UNCHANGED <<bi, cur, printable_runs>>
    /\ UNCHANGED <<call, file, data, min_chars, pc, oi, tried, result, tier,
                   raised, stdout, content, default_stem>>

\* Lines 116-132: one iteration of the outer while loop.
ScanStep ==
    /\ pc = "scan"
    /\ i + 1 < Len(data)
    /\ LET j == RunEnd(data, i)
           count == (j - i) \div 2
           chunk == Slice(data, i, j)
       IN IF count >= min_chars
          THEN /\ IF DecodeRaises(chunk)
                  THEN UNCHANGED <<runs, spans>>
                  ELSE /\ runs' = Append(runs, Strip(DecodeReplace(chunk)))
                       /\ spans' = Append(spans, <<i, j>>)
               /\ i' = j
          ELSE /\ i' = i + 1
               /\ UNCHANGED <<runs, spans>>
    /\ UNCHANGED <<bi, cur, printable_runs>>
    /\ UNCHANGED <<call, file, data, min_chars, pc, oi, tried, result, tier,
                   raised, stdout, content, default_stem>>

\* Line 134, called directly: the loop is over and runs is returned.
ScanReturn ==
    /\ pc = "scan"
    /\ ~(i + 1 < Len(data))
    /\ call = "extract_utf16le_runs"
    /\ pc' = "done"
    /\ UNCHANGED <<bi, cur, printable_runs>>
    /\ UNCHANGED <<call, file, data, min_chars, i, runs, spans, oi, tried,
                   result, tier, raised, stdout, content, default_stem>>

\* Lines 72-73: the scanner returned a non-empty list.
ReturnRuns ==
    /\ pc = "scan"
    /\ ~(i + 1 < Len(data))
    /\ call = "decode_notepad_bin"
    /\ runs # <<>>
    /\ result' = Strip(Join(Separator, runs))
    /\ tier' = "runs"
    /\ pc' = "done"
    /\ UNCHANGED <<bi, cur, printable_runs>>
    /\ UNCHANGED <<call, file, data, min_chars, i, runs, spans, oi, tried,
                   raised, stdout, content, default_stem>>

\* Mutant: the offset loop starts whatever the scanner returned.
NoRunsUnguarded ==
    /\ pc = "scan"
    /\ ~(i + 1 < Len(data))
    /\ call = "decode_notepad_bin"
    /\ oi' = 1
    /\ pc' = "offsets"
    /\ UNCHANGED <<bi, cur, printable_runs>>
    /\ UNCHANGED <<call, file, data, min_chars, i, runs, spans, tried, result,
                   tier, raised, stdout, content, default_stem>>

\* Lines 72, 76: the scanner returned []; the offset loop starts.
NoRuns ==
    /\ pc = "scan"
    /\ ~(i + 1 < Len(data))
    /\ call = "decode_notepad_bin"
    /\ runs = <<>>
    /\ oi' = 1
    /\ pc' = "offsets"
    /\ UNCHANGED <<bi, cur, printable_runs>>
    /\ UNCHANGED <<call, file, data, min_chars, i, runs, spans, tried, result,
                   tier, raised, stdout, content, default_stem>>

\* Mutant: an accepted text is kept but the loop goes on to the next offset.
TryOffsetNoReturn ==
    /\ pc = "offsets"
    /\ oi <= Len(Offsets)
    /\ LET offset == Offsets[oi]
           decoded == OffsetText(data, offset)
       IN IF offset >= Len(data)
          THEN UNCHANGED <<tried, result, tier>>
          ELSE /\ tried' = Append(tried, offset)
               /\ IF Accepted(decoded)
                  THEN result' = decoded /\ tier' = "offset"
                  ELSE UNCHANGED <<result, tier>>
    /\ oi' = oi + 1
    /\ UNCHANGED <<bi, cur, printable_runs, pc>>
    /\ UNCHANGED <<call, file, data, min_chars, i, runs, spans, raised, stdout,
                   content, default_stem>>

\* Lines 76-88: one iteration of the offset loop.
TryOffset ==
    /\ pc = "offsets"
    /\ oi <= Len(Offsets)
    /\ LET offset == Offsets[oi]
           decoded == OffsetText(data, offset)
       IN IF offset >= Len(data)
          THEN /\ oi' = oi + 1
               /\ UNCHANGED <<tried, result, tier, pc>>
          ELSE /\ tried' = Append(tried, offset)
               /\ IF Accepted(decoded)
                  THEN /\ result' = decoded
                       /\ tier' = "offset"
                       /\ pc' = "done"
                       /\ UNCHANGED oi
                  ELSE /\ oi' = oi + 1
                       /\ UNCHANGED <<result, tier, pc>>
    /\ UNCHANGED <<bi, cur, printable_runs>>
    /\ UNCHANGED <<call, file, data, min_chars, i, runs, spans, raised, stdout,
                   content, default_stem>>

\* Lines 90-91: no offset was accepted; extract_printable_strings is called.
LastResort ==
    /\ pc = "offsets"
    /\ oi > Len(Offsets)
    /\ bi' = 0
    /\ cur' = <<>>
    /\ printable_runs' = <<>>
    /\ pc' = "printable"
    /\ UNCHANGED <<call, file, data, min_chars, i, runs, spans, oi, tried,
                   result, tier, raised, stdout, content, default_stem>>

\* Lines 145-151: one iteration of the loop over the bytes.
PrintableStep ==
    /\ pc = "printable"
    /\ bi < Len(data)
    /\ LET byte == data[bi + 1] IN
       IF IsPrintable(byte)
       THEN /\ cur' = Append(cur, byte)
            /\ UNCHANGED printable_runs
       ELSE /\ printable_runs' = Flush(printable_runs, cur, DefaultMinLen)
            /\ cur' = <<>>
    /\ bi' = bi + 1
    /\ UNCHANGED <<call, file, data, min_chars, pc, i, runs, spans, oi, tried,
                   result, tier, raised, stdout, content, default_stem>>

\* Lines 153-156, and 91 under decode_notepad_bin: the last run is kept and
\* the runs are joined and returned.
PrintableReturn ==
    /\ pc = "printable"
    /\ bi = Len(data)
    /\ printable_runs' = Flush(printable_runs, cur, DefaultMinLen)
    /\ result' = Join(Separator, printable_runs')
    /\ tier' = IF call = "decode_notepad_bin" THEN "printable" ELSE tier
    /\ pc' = "done"
    /\ UNCHANGED <<call, file, data, min_chars, i, runs, spans, oi, tried, bi,
                   cur, raised, stdout, content, default_stem>>

\* Lines 159-198
MakeFilename ==
    /\ pc = "filename"
    /\ result' = make_filename_from_content(content, default_stem)
    /\ pc' = "done"
    /\ UNCHANGED <<bi, cur, printable_runs>>
    /\ UNCHANGED <<call, file, data, min_chars, i, runs, spans, oi, tried,
                   tier, raised, stdout, content, default_stem>>

Next ==
    \/ OpenRead
    \/ HandleIOError
    \/ ScanStep
    \/ ScanReturn
    \/ ReturnRuns
    \/ NoRuns
    \/ TryOffset
    \/ LastResort
    \/ PrintableStep
    \/ PrintableReturn
    \/ MakeFilename

Spec == Init /\ [][Next]_vars

----------------------------------------------------------------------------
(* Properties.                                                             *)

ScanDone == call = "extract_utf16le_runs" /\ pc = "done"

DecodeDone == call = "decode_notepad_bin" /\ pc = "done" /\ file.status = "ok"

\* A buffer made only of pairs (lo, 0) with lo in 0x20..0x7E.
IsAsciiRangeBuffer(d) ==
    /\ Len(d) % 2 = 0
    /\ \A k \in 1..Len(d) : IF k % 2 = 1 THEN d[k] \in 32..126 ELSE d[k] = 0

\* One character per low byte.
LowBytes(d) == [k \in 1..(Len(d) \div 2) |-> d[2 * k - 1]]

RoundTripCase ==
    ScanDone /\ min_chars = 4 /\ IsAsciiRangeBuffer(data) /\ Len(data) >= 8

\* C1 as stated: for a buffer of at least 4 ASCII-range pairs and nothing
\* else, extract_utf16le_runs(buffer, 4) returns exactly one run, the exact
\* original character sequence.
C1_RoundTripExact == RoundTripCase => runs = <<LowBytes(data)>>

\* C1 amended: the one run returned is the original character sequence with
\* its leading and trailing spaces removed (line 127 strips each run).
C1_RoundTripStripped == RoundTripCase => runs = <<Strip(LowBytes(data))>>

C1_Witness ==
    /\ RoundTripCase
    /\ Len(runs) = 1
    /\ runs[1] # <<>>
    /\ Len(runs[1]) < Len(data) \div 2

\* The offsets of the list that lie inside the buffer, in list order.
InsideOffsets(d) == SelectSeq(Offsets, LAMBDA o : o < Len(d))

\* No 4 consecutive bytes of the buffer are all in 0x20..0x7E.
NoSegment(d) ==
    \A k \in 1..(Len(d) - 3) : \E m \in 0..3 : ~(d[k + m] \in 32..126)

NoOffsetAccepted(d) ==
    \A k \in 1..Len(Offsets) :
        Offsets[k] < Len(d) => ~Accepted(OffsetText(d, Offsets[k]))

\* C2: tier order of decode_notepad_bin.  When the scanner returned runs the
\* result is the runs joined by "\n\n" and stripped, and no offset was
\* decoded nor the printable scan returned; an offset is decoded only when
\* the scanner returned nothing; the printable scan is returned only when
\* the scanner returned nothing and every offset inside the buffer was
\* rejected.
C2_TierOrder ==
    /\ (call = "decode_notepad_bin" /\ (tried # <<>> \/ oi > 0)) => runs = <<>>
    /\ DecodeDone =>
        /\ runs # <<>> =>
              /\ result = Strip(Join(Separator, runs))
              /\ tier = "runs"
              /\ tried = <<>>
        /\ tier = "offset" => runs = <<>>
        /\ tier = "printable" =>
              /\ runs = <<>>
              /\ NoOffsetAccepted(data)
              /\ tried = InsideOffsets(data)

C2_Witness ==
    /\ DecodeDone
    /\ Len(runs) >= 2
    /\ tier = "runs"
    /\ result # <<>>

\* C3 as stated: when the file cannot be opened or read, the outcome of
\* decode_notepad_bin differs from the outcome of a readable file without
\* text, which is a normal return of "".
C3_IOErrorDistinct ==
    (call = "decode_notepad_bin" /\ pc = "done" /\ file.status # "ok")
        => (raised \/ result # <<>>)

\* C4 as stated: an empty result of a buffer that was read means that the
\* scanner found no run, that no offset would be accepted and that the
\* printable scan of the buffer has no segment of 4 or more bytes.
C4_EmptyMeansNothing ==
    (DecodeDone /\ result = <<>>) =>
        /\ runs = <<>>
        /\ NoOffsetAccepted(data)
        /\ NoSegment(data)

\* C5: the offset tier.  The offsets inside the buffer are decoded in list
\* order (those at or past the end are skipped); nothing is decoded after
\* an accepted offset; and a result of this tier is the lenient decode,
\* without replacement characters and stripped, of the buffer from the
\* smallest offset whose text is longer than 5 and has an alphanumeric
\* character.
C5_FirstAccept ==
    call = "decode_notepad_bin" =>
        /\ tried = SubSeq(InsideOffsets(data), 1, Len(tried))
        /\ \A m \in 1..Len(tried) :
              Accepted(OffsetText(data, tried[m]))
                  => (m = Len(tried) /\ pc = "done" /\ tier = "offset")
        /\ (pc = "done" /\ tier = "offset") =>
              /\ tried # <<>>
              /\ runs = <<>>
              /\ result = OffsetText(data, tried[Len(tried)])
              /\ Len(result) > 5
              /\ \E k \in 1..Len(result) : IsAlnum(result[k])

C5_Witness ==
    /\ DecodeDone
    /\ tier = "offset"
    /\ Len(InsideOffsets(data)) > Len(tried)
    /\ result = OffsetText(data, 0)
    /\ Accepted(OffsetText(data, 2))

\* C6 as stated: the text returned for a buffer that was read has no
\* leading and no trailing whitespace, whichever tier it comes from.
C6_ResultTrimmed ==
    (DecodeDone /\ result # <<>>) =>
        ~IsSpace(result[1]) /\ ~IsSpace(result[Len(result)])

RECURSIVE SpanTotal(_)
SpanTotal(ss) ==
    IF ss = <<>> THEN 0 ELSE (Head(ss)[2] - Head(ss)[1]) + SpanTotal(Tail(ss))

\* C7: the byte spans [i, j) of the runs taken by extract_utf16le_runs lie
\* in the buffer, each starts at or after the end of the one before, and
\* together they are no longer than the buffer.
C7_SpansDisjoint ==
    /\ Len(spans) = Len(runs)
    /\ \A k \in 1..Len(spans) :
          /\ 0 <= spans[k][1]
          /\ spans[k][1] < spans[k][2]
          /\ spans[k][2] <= Len(data)
    /\ \A k \in 1..(Len(spans) - 1) : spans[k][2] <= spans[k + 1][1]
    /\ SpanTotal(spans) <= Len(data)

C7_Witness ==
    /\ ScanDone
    /\ Len(spans) >= 2
    /\ \E k \in 1..(Len(spans) - 1) : spans[k][2] + 1 = spans[k + 1][1]

AllZero(d) == \A k \in 1..Len(d) : d[k] = 0

\* C8: a buffer shorter than 2 bytes, and a buffer of 0x00 bytes only, goes
\* through all three tiers: the scanner returns no run, every offset inside
\* the buffer is decoded and rejected, the printable scan finds no segment,
\* and the result is "".
C8_DegenerateEmpty ==
    (DecodeDone /\ (Len(data) < 2 \/ AllZero(data))) =>
        /\ runs = <<>>
        /\ tried = InsideOffsets(data)
        /\ NoOffsetAccepted(data)
        /\ tier = "printable"
        /\ NoSegment(data)
        /\ result = <<>>

C8_Witness ==
    /\ DecodeDone
    /\ Len(data) = 100
    /\ AllZero(data)
    /\ Len(tried) = 11
    /\ tier = "printable"
    /\ result = <<>>

IsStemChar(c) == c \in 65..90 \/ c \in 97..122 \/ c \in 48..57 \/ c = 45

\* "Hello_World_2024"
HelloStem ==
    <<72, 101, 108, 108, 111, 95, 87, 111, 114, 108, 100, 95, 50, 48, 50, 52>>

\* The first FILENAME_MAX_LEN characters of the first non-blank line.
StemSource(c) == Truncate(FirstLine(c))

\* No stem can be derived: the text is empty, has no non-blank line, or the
\* source of the stem has no letter, digit or hyphen.
NoStem(c) ==
    \/ c = <<>>
    \/ \A k \in 1..Len(SplitLines(c)) :
          \A x \in 1..Len(SplitLines(c)[k]) : IsSpace(SplitLines(c)[k][x])
    \/ \A k \in 1..Len(StemSource(c)) : ~IsStemChar(StemSource(c)[k])

\* C9: make_filename_from_content returns default_stem unchanged when no
\* stem can be derived, and otherwise a non-empty stem of letters, digits,
\* '_' and '-' only, without "__", without '_' at either end, whose letters,
\* digits and hyphens are those of the first 30 characters of the first
\* non-blank line; the text of the example gives "Hello_World_2024".
C9_SafeStem ==
    (call = "make_filename_from_content" /\ pc = "done") =>
        /\ IF NoStem(content)
           THEN result = default_stem
           ELSE /\ result # <<>>
                /\ Len(result) <= 30
                /\ \A k \in 1..Len(result) : IsStemChar(result[k]) \/ result[k] = 95
                /\ \A k \in 1..(Len(result) - 1) :
                      ~(result[k] = 95 /\ result[k + 1] = 95)
                /\ result[1] # 95
                /\ result[Len(result)] # 95
                /\ SelectSeq(result, IsStemChar)
                       = SelectSeq(StemSource(content), IsStemChar)
        /\ (content = HelloText /\ default_stem = DecodedStem) => result = HelloStem

C9_Witness ==
    /\ call = "make_filename_from_content"
    /\ pc = "done"
    /\ content = HelloText
    /\ default_stem = DecodedStem
    /\ result = HelloStem

\* min pairs from byte offset a are all ASCII-range.
PairsAt(d, a, m) ==
    /\ a + 2 * m <= Len(d)
    /\ \A k \in 0..(m - 1) : d[a + 2 * k + 1] \in 32..126 /\ d[a + 2 * k + 2] = 0

\* "BCDE"
BCDE == <<66, 67, 68, 69>>

\* A step of extract_utf16le_runs: an iteration of the loop moves the cursor
\* forward, past the run at i when it has min_chars pairs or more and by 1
\* byte otherwise; the cursor stays within the buffer; the loop is left only
\* with fewer than 2 bytes remaining.
CursorStep ==
    pc = "scan" =>
        /\ i + 1 < Len(data) =>
              /\ pc' = "scan"
              /\ i' > i
              /\ i' <= Len(data)
              /\ IF PairsAt(data, i, min_chars)
                 THEN /\ (i' - i) % 2 = 0
                      /\ PairsAt(data, i, (i' - i) \div 2)
                      /\ ~PairsAt(data, i', 1)
                 ELSE i' = i + 1
        /\ ~(i + 1 < Len(data)) => (pc' # "scan" /\ i' = i)
        /\ (pc' = "done" /\ data = FalseStart /\ min_chars = 4) => runs' = <<BCDE>>

\* C10: every iteration of the loop of extract_utf16le_runs moves the cursor
\* forward, to the end j of the run when the run at i has min_chars pairs or
\* more and by exactly 1 byte otherwise, within the buffer, so the loop ends;
\* it is left only with fewer than 2 bytes remaining; and the buffer
\* 41 01 42 00 43 00 44 00 45 00 yields ["BCDE"].
C10_CursorProgress == [][CursorStep]_vars

\* A run of 4 pairs at byte offset 1, found after the false start at 0.
C10_Witness ==
    /\ ScanDone
    /\ min_chars = 4
    /\ Len(data) = 9
    /\ spans = <<<<1, 9>>>>
    /\ runs # <<<<>>>>

\* The maximal sequences [a, b] (1-based, inclusive) of consecutive bytes in
\* 0x20..0x7E that are 4 bytes long or longer.
Segments(d) ==
    {ab \in (1..Len(d)) \X (1..Len(d)) :
        /\ ab[2] - ab[1] + 1 >= 4
        /\ \A k \in ab[1]..ab[2] : d[k] \in 32..126
        /\ ab[1] = 1 \/ ~(d[ab[1] - 1] \in 32..126)
        /\ ab[2] = Len(d) \/ ~(d[ab[2] + 1] \in 32..126)}

\* The k-th segment in buffer order.
SegmentAt(d, k) ==
    CHOOSE ab \in Segments(d) :
        Cardinality({x \in Segments(d) : x[1] <= ab[1]}) = k

SegmentTexts(d) ==
    [k \in 1..Cardinality(Segments(d)) |->
        SubSeq(d, SegmentAt(d, k)[1], SegmentAt(d, k)[2])]

PrintableDone == call = "extract_printable_strings" /\ pc = "done"

\* C11: extract_printable_strings(buffer, 4) returns the maximal sequences
\* of consecutive bytes in 0x20..0x7E that are at least 4 bytes long, one
\* character per byte, in buffer order, joined by "\n\n"; shorter sequences
\* are left out, a sequence that ends the buffer is returned, and the result
\* is "" when there is none.
C11_PrintableSegments ==
    PrintableDone =>
        /\ printable_runs = SegmentTexts(data)
        /\ result = Join(Separator, SegmentTexts(data))
        /\ Segments(data) = {} => result = <<>>

\* Two segments, the last one ending the buffer.
C11_Witness ==
    /\ PrintableDone
    /\ Len(printable_runs) = 2
    /\ \E ab \in Segments(data) : ab[2] = Len(data)
    /\ result = printable_runs[1] \o Separator \o printable_runs[2]

\* The maximal sequences [a, b) (0-based byte offsets) of m or more
\* consecutive ASCII-range pairs: the pairs at a, a + 2, .., b - 2 are
\* ASCII-range, the pair at b and the pair at a - 2 are not, or do not exist.
MaximalRuns(d, m) ==
    {ab \in {x \in (0..Len(d)) \X (0..Len(d)) :
                x[1] < x[2] /\ (x[2] - x[1]) % 2 = 0 /\ PairsAt(d, x[1], 1)} :
        /\ (ab[2] - ab[1]) \div 2 >= m
        /\ PairsAt(d, ab[1], (ab[2] - ab[1]) \div 2)
        /\ ~PairsAt(d, ab[2], 1)
        /\ ~(ab[1] >= 2 /\ PairsAt(d, ab[1] - 2, 1))}

\* The loop of the scanner is over.
ScanOver == pc = "scan" /\ ~(i + 1 < Len(data))

\* C12: when the scanner is done, the runs it took are the maximal sequences
\* of min_chars or more consecutive ASCII-range pairs of the buffer, at even
\* and at odd offsets: no run taken can be extended on either side, and each
\* maximal sequence was taken exactly once.
C12_RunsMaximal ==
    ScanOver =>
        /\ {spans[k] : k \in 1..Len(spans)} = MaximalRuns(data, min_chars)
        /\ Cardinality(MaximalRuns(data, min_chars)) = Len(spans)
        /\ Len(runs) = Len(spans)
        /\ \A k \in 1..Len(spans) :
              runs[k] = Strip([x \in 1..((spans[k][2] - spans[k][1]) \div 2) |->
                                  data[spans[k][1] + 2 * x - 1]])

\* A run at an even offset and a run at an odd offset of one buffer.
C12_Witness ==
    /\ ScanOver
    /\ min_chars = 4
    /\ \E k \in 1..Len(spans) : spans[k][1] % 2 = 0
    /\ \E k \in 1..Len(spans) : spans[k][1] % 2 = 1

====
